---- MODULE Spec2Model ----
(***************************************************************************)
(* Model of vkr-pipe: the pipeline code generator (gen.rs) and the runtime *)
(* objects it emits: the registry PipelineCache, the per-shader variants   *)
(* Pipeline<Name> and their descriptor caches PipelineCache<Name>.         *)
(*                                                                         *)
(* Spec      the emitted registry at run time (get, get_mut, get_cache,    *)
(*           drop), native calls logged in `calls`.                        *)
(* SpecVertex  gen::pipeline, vertex binding and attributes.               *)
(* SpecSets    gen::set_layouts_methods and gen::write_set_methods.        *)
(* SpecPool    one emitted descriptor cache: new, allocate, free, drop.    *)
(***************************************************************************)
EXTENDS Integers, Sequences, FiniteSets, TLC

VARIABLES
    \* registry PipelineCache (gen.rs 576-581); Option is a sequence of length 0 or 1
    pass, pipelines, shader_module,
    phase,          \* "live" until the registry is dropped, then "dropped"
    fatal,          \* a panic was raised (expect / assert failed)
    calls,          \* the native calls of the last operation, in program order
    nextInst,       \* next Box allocation
    ret,            \* the last call and what it returned
    constructed,    \* variants stored by create_pipeline, in construction order
    creates,        \* number of create_pipeline invocations
    modules,        \* the shader modules built, in order
    \* gen::pipeline (vertex input part)
    arg_types, vertex,
    \* gen::set_layouts_methods / gen::write_set_methods
    uniforms, set_layouts_gen, write_sets_gen,
    \* one emitted descriptor cache and the device's pool behind it
    cache, pool,
    \* pipewriter::get_pipelines: the parsed shader file and the pipelines found
    file, found

rtVars   == <<pass, pipelines, shader_module, phase, fatal, calls,
              nextInst, ret, constructed, creates, modules>>
registryVars == <<pass, pipelines, shader_module, phase, nextInst, constructed,
                  creates, modules>>
vtxVars  == <<arg_types, vertex>>
setVars  == <<uniforms, set_layouts_gen, write_sets_gen>>
poolVars == <<cache, pool>>
extVars  == <<file, found>>
vars     == <<rtVars, vtxVars, setVars, poolVars, extVars>>

----------------------------------------------------------------------------
\* Bounds of the model

NumShaders == 2        \* pipeline_count: identities of the shader enum
MaxIndex == 2          \* largest index passed to get_cache
MaxArgs == 4           \* longest vertex input list
MaxUniforms == 3       \* longest uniform list
MaxSet == 2            \* largest descriptor set index
MaxBatch == 2          \* longest batch passed to allocate / free
MaxItems == 2          \* most top-level items of a shader file

Shaders == 0 .. NumShaders - 1

----------------------------------------------------------------------------
\* Helpers: Option as a sequence of length 0 or 1

None == <<>>
Some(x) == <<x>>
is_none(o) == o = <<>>
unwrap(o) == o[1]

Range(s) == {s[i] : i \in DOMAIN s}

RECURSIVE SeqSum(_)
SeqSum(s) == IF s = <<>> THEN 0 ELSE s[1] + SeqSum(Tail(s))

\* every order in which the elements of a finite set can be listed
Orders(S) == {f \in [1 .. Cardinality(S) -> S] : \A i, j \in DOMAIN f : f[i] = f[j] => i = j}

SeqsUpTo(S, n) == UNION {[1 .. k -> S] : k \in 0 .. n}

----------------------------------------------------------------------------
\* gen.rs, the generator: vertex input layout

VertexTypes == {"Vec2", "Vec3", "Vec4"}

get_format(arg_type) ==
    CASE arg_type = "Vec4" -> "R32G32B32A32_SFLOAT"
      [] arg_type = "Vec3" -> "R32G32B32_SFLOAT"
      [] arg_type = "Vec2" -> "R32G32_SFLOAT"

get_size_padded(arg_type) ==
    CASE arg_type = "Vec4" -> 16
      [] arg_type = "Vec3" -> 16
      [] arg_type = "Vec2" -> 8

\* size_of::<[f32; n]>() is 4 * n
get_size(arg_type) ==
    CASE arg_type = "Vec4" -> 16
      [] arg_type = "Vec3" -> 12
      [] arg_type = "Vec2" -> 8

\* `as u32` of a usize: the value itself, as strides and offsets stay below
\* 16 * MaxArgs and locations below MaxArgs, far from 2^32
as_u32(n) == n

\* arg_types.iter().fold(0, |acc, ty| acc + get_size(ty))
RECURSIVE fold_stride(_, _)
fold_stride(acc, tys) ==
    IF tys = <<>> THEN acc ELSE fold_stride(acc + get_size(tys[1]), Tail(tys))

vertex_bindings(tys) ==
    [binding |-> 0, stride |-> as_u32(fold_stride(0, tys)), input_rate |-> "VERTEX"]

\* the for loop over arg_types.iter().enumerate(), offset carried between iterations
RECURSIVE attribute_loop(_, _, _, _)
attribute_loop(tys, loc, offset, out) ==
    IF loc >= Len(tys) THEN out
    ELSE attribute_loop(tys, loc + 1, offset + get_size(tys[loc + 1]),
            Append(out, [binding |-> 0, location |-> as_u32(loc),
                         format |-> get_format(tys[loc + 1]), offset |-> as_u32(offset)]))

vertex_attributes(tys) == attribute_loop(tys, 0, 0, <<>>)

----------------------------------------------------------------------------
\* gen.rs, the generator: descriptor set layouts and write_set methods

Kinds == <<"UNIFORM_BUFFER", "COMBINED_IMAGE_SAMPLER", "INPUT_ATTACHMENT">>
Stages == <<"VERTEX", "FRAGMENT">>

\* The uniform a shader declares at (set, slot): a (set, slot) pair names one
\* binding, so its kind and stage are a function of the pair.
Decl(set, slot) ==
    [descriptor_set |-> set, binding |-> slot,
     kind |-> Kinds[((set + slot) % 3) + 1],
     stage |-> Stages[(slot % 2) + 1],
     name |-> <<"u", set, slot>>]

\* the binding slots a shader of the model uses within a set
Bindings == {0, 1}

UniformDecls == {Decl(set, slot) : set \in 0 .. MaxSet, slot \in Bindings}

get_descriptor_type(uniform) == uniform.kind

get_info(uniform) ==
    CASE uniform.kind = "UNIFORM_BUFFER" -> "buffer_info"
      [] uniform.kind = "COMBINED_IMAGE_SAMPLER" -> "image_info"
      [] uniform.kind = "INPUT_ATTACHMENT" -> "attachment_info"

get_write_set_type(uniform) ==
    CASE uniform.kind = "UNIFORM_BUFFER" -> "Buffer"
      [] uniform.kind = "COMBINED_IMAGE_SAMPLER" -> "Texture"
      [] uniform.kind = "INPUT_ATTACHMENT" -> "DescriptorImageInfo"

RECURSIVE insert_by_slot(_, _)
insert_by_slot(u, s) ==
    IF s = <<>> THEN <<u>>
    ELSE IF u.binding <= s[1].binding THEN <<u>> \o s
    ELSE <<s[1]>> \o insert_by_slot(u, Tail(s))

RECURSIVE sort_by_slot(_)
sort_by_slot(s) == IF s = <<>> THEN <<>> ELSE insert_by_slot(s[1], sort_by_slot(Tail(s)))

set_uniforms_by_slot(us, set) ==
    sort_by_slot(SelectSeq(us, LAMBDA u : u.descriptor_set = set))

\* uniforms.iter().filter(|u| u.descriptor_set == set)
set_uniforms(us, set) == SelectSeq(us, LAMBDA u : u.descriptor_set = set)

set_layout_bindings_all(us, set) ==
    [i \in 1 .. Len(us) |->
        [binding |-> us[i].binding,
         descriptor_type |-> get_descriptor_type(us[i]),
         descriptor_count |-> 1,
         stage_flags |-> us[i].stage]]

set_layout_bindings(us, set) ==
    LET sel == set_uniforms(us, set)
    IN  [i \in 1 .. Len(sel) |->
            [binding |-> sel[i].binding,
             descriptor_type |-> get_descriptor_type(sel[i]),
             descriptor_count |-> 1,
             stage_flags |-> sel[i].stage]]

\* the HashSet of the set indices
distinct_sets(us) == {us[i].descriptor_set : i \in DOMAIN us}

RECURSIVE insert_sorted(_, _)
insert_sorted(x, s) ==
    IF s = <<>> THEN <<x>>
    ELSE IF x <= s[1] THEN <<x>> \o s
    ELSE <<s[1]>> \o insert_sorted(x, Tail(s))

RECURSIVE sort(_)
sort(s) == IF s = <<>> THEN <<>> ELSE insert_sorted(s[1], sort(Tail(s)))

unsorted(us, order) == order

\* `order` is the order in which the HashSet is iterated by into_iter(): any
\* listing of the distinct set indices; the vector is then sorted.
get_sorted_sets(us, order) == sort(order)

\* the body of the emitted new_set_layouts: one create_set_layout call per set
set_layouts_methods(us, order) ==
    LET sets == get_sorted_sets(us, order)
    IN  [i \in 1 .. Len(sets) |->
            [set |-> sets[i], bindings |-> set_layout_bindings(us, sets[i])]]

write_set_methods_unbatched(us, order) ==
    LET sets == get_sorted_sets(us, order)
    IN  [i \in 1 .. Len(sets) |->
            LET sel == set_uniforms(us, sets[i])
            IN  [set |-> sets[i],
                 writes |-> [k \in 1 .. Len(sel) |->
                                [dst_set |-> "set",
                                 dst_binding |-> sel[k].binding,
                                 dst_array_element |-> 0,
                                 descriptor_type |-> get_descriptor_type(sel[k]),
                                 info |-> get_info(sel[k])]],
                 args |-> [k \in 1 .. Len(sel) |->
                                [name |-> sel[k].name, type |-> get_write_set_type(sel[k])]],
                 updates |-> Len(sel)]]

write_set_methods_by_slot(us, order) ==
    LET sets == get_sorted_sets(us, order)
    IN  [i \in 1 .. Len(sets) |->
            LET sel == set_uniforms(us, sets[i])
                srt == set_uniforms_by_slot(us, sets[i])
            IN  [set |-> sets[i],
                 writes |-> [k \in 1 .. Len(srt) |->
                                [dst_set |-> "set",
                                 dst_binding |-> srt[k].binding,
                                 dst_array_element |-> 0,
                                 descriptor_type |-> get_descriptor_type(srt[k]),
                                 info |-> get_info(srt[k])]],
                 args |-> [k \in 1 .. Len(sel) |->
                                [name |-> sel[k].name, type |-> get_write_set_type(sel[k])]],
                 updates |-> 1]]

\* the emitted write_set_<set> methods, in emission order
write_set_methods(us, order) ==
    LET sets == get_sorted_sets(us, order)
    IN  [i \in 1 .. Len(sets) |->
            LET sel == set_uniforms(us, sets[i])
            IN  [set |-> sets[i],
                 writes |-> [k \in 1 .. Len(sel) |->
                                [dst_set |-> "set",
                                 dst_binding |-> sel[k].binding,
                                 dst_array_element |-> 0,
                                 descriptor_type |-> get_descriptor_type(sel[k]),
                                 info |-> get_info(sel[k])]],
                 args |-> [k \in 1 .. Len(sel) |->
                                [name |-> sel[k].name, type |-> get_write_set_type(sel[k])]],
                 updates |-> 1]]


----------------------------------------------------------------------------
\* The emitted runtime code.  `calls` holds the native calls of the last
\* operation, in program order.  A native create call either succeeds and
\* returns a new handle, or fails, and then the `expect` on its result panics.
\* `ok` is the number of native create calls the device lets succeed from the
\* current point on.  A handle is <<owner, serial>>: the serial-th object the
\* device made for that owner (0 the registry, n the n-th Box); the device
\* never returns a handle twice.

Min(a, b) == IF a <= b THEN a ELSE b
Max(a, b) == IF a >= b THEN a ELSE b

Registry == 0
Nth(h, i) == <<h[1], h[2] + i>>

Created(kind, h, owner, arg) ==
    [op |-> "create", kind |-> kind, h |-> h, owner |-> owner, arg |-> arg]
Destroyed(kind, h, owner) ==
    [op |-> "destroy", kind |-> kind, h |-> h, owner |-> owner, arg |-> <<>>]
Dropped(kind, id) ==
    [op |-> "drop", kind |-> kind, h |-> <<id, 0>>, owner |-> id, arg |-> <<>>]
Panic(cause) == [op |-> "panic", cause |-> cause]

\* The uniforms of the shader an identity names (what gen::pipeline was run on)
ShaderUniforms(shader) ==
    CASE shader % 3 = 0 -> <<Decl(1, 0), Decl(0, 0), Decl(1, 1)>>
      [] shader % 3 = 1 -> <<>>
      [] shader % 3 = 2 -> <<Decl(0, 1)>>

\* the create_set_layout calls in the body of the identity's new_set_layouts
EmittedSetLayouts(shader) ==
    LET us == ShaderUniforms(shader)
    IN  set_layouts_methods(us, CHOOSE o \in Orders(distinct_sets(us)) : TRUE)

\* vec![Self::create_set_layout(..), ..]: the calls run in order and the first
\* failure panics
new_set_layouts(emitted, h, ok) ==
    [handles |-> [i \in 1 .. Min(ok, Len(emitted)) |-> Nth(h, i - 1)],
     panicked |-> ok < Len(emitted)]

new_layout_shared(set_layouts, h, ok) == [handle |-> <<Registry, 0>>, panicked |-> ok < 1]

new_layout(set_layouts, h, ok) == [handle |-> h, panicked |-> ok < 1]

new_impl(layout, module, render_pass, h, ok) == [handle |-> h, panicked |-> ok < 1]

Pipeline_new_layout_first(id, shader, module, render_pass, h, ok) ==
    LET emitted == EmittedSetLayouts(shader)
        k == Len(emitted)
        handles == [i \in 1 .. k |-> Nth(h, i)]
    IN  IF ok < k + 2
        THEN [variant |-> None, events |-> <<>>, panic |-> "pipeline layout"]
        ELSE [variant |-> Some([id |-> id, name |-> shader, caches |-> <<>>,
                                pipeline |-> Nth(h, k + 1), layout |-> h,
                                set_layouts |-> handles]),
              events |-> <<Created("pipeline_layout", h, id, handles)>>
                         \o [i \in 1 .. k |-> Created("set_layout", handles[i], id, emitted[i])]
                         \o <<Created("pipeline", Nth(h, k + 1), id, <<h, module, render_pass>>)>>,
              panic |-> ""]

\* Pipeline<Name>::new: set layouts, then the pipeline layout, then the pipeline
Pipeline_new(id, shader, module, render_pass, h, ok) ==
    LET emitted == EmittedSetLayouts(shader)
        k == Len(emitted)
        sl == new_set_layouts(emitted, h, ok)
        ev1 == [i \in 1 .. Len(sl.handles) |->
                    Created("set_layout", sl.handles[i], id, emitted[i])]
    IN  IF sl.panicked
        THEN [variant |-> None, events |-> ev1, panic |-> "descriptor set layout"]
        ELSE
        LET lay == new_layout(sl.handles, Nth(h, k), ok - k)
            ev2 == Append(ev1, Created("pipeline_layout", lay.handle, id, sl.handles))
        IN  IF lay.panicked
            THEN [variant |-> None, events |-> ev1, panic |-> "pipeline layout"]
            ELSE
            LET pl == new_impl(lay.handle, module, render_pass, Nth(h, k + 1), ok - k - 1)
                ev3 == Append(ev2, Created("pipeline", pl.handle, id,
                                           <<lay.handle, module, render_pass>>))
            IN  IF pl.panicked
                THEN [variant |-> None, events |-> ev2, panic |-> "graphics pipeline"]
                ELSE [variant |-> Some([id |-> id,
                                        name |-> shader,
                                        caches |-> <<>>,
                                        pipeline |-> pl.handle,
                                        layout |-> lay.handle,
                                        set_layouts |-> sl.handles]),
                      events |-> ev3,
                      panic |-> ""]

\* PipelineCache<Name>::new, given the pool the device returned
PipelineCacheName_new(pool_handle) == [sets |-> <<>>, pool |-> pool_handle]

get_cache_overshoot(caches, index, h, ok) ==
    LET want == Max(Len(caches), index + 2)
        n == Min(ok, want - Len(caches))
    IN  [caches |-> caches \o [i \in 1 .. n |-> PipelineCacheName_new(Nth(h, i - 1))],
         panicked |-> Len(caches) + n < want]

RECURSIVE get_cache_poolless(_, _, _, _)
get_cache_poolless(caches, index, h, ok) ==
    IF index >= Len(caches)
    THEN get_cache_poolless(Append(caches, PipelineCacheName_new(
                                IF ok < 1 THEN <<h[1], 0>> ELSE h)), index, Nth(h, 1), ok - 1)
    ELSE [caches |-> caches, panicked |-> FALSE]

get_cache_reset(caches, index, h, ok) ==
    IF index < Len(caches)
    THEN [caches |-> [caches EXCEPT ![index + 1] = PipelineCacheName_new(h)],
          panicked |-> FALSE]
    ELSE get_cache_overshoot(caches, index - 1, h, ok)

\* the while loop of get_cache: push a new cache while index >= caches.len()
RECURSIVE get_cache_loop(_, _, _, _)
get_cache_loop(caches, index, h, ok) ==
    IF index >= Len(caches)
    THEN IF ok < 1
         THEN [caches |-> caches, panicked |-> TRUE]
         ELSE get_cache_loop(Append(caches, PipelineCacheName_new(h)), index,
                             Nth(h, 1), ok - 1)
    ELSE [caches |-> caches, panicked |-> FALSE]

drop_PipelineCacheName_leak(c, owner) == <<>>

\* Drop for PipelineCache<Name>
drop_PipelineCacheName(c, owner) == <<Destroyed("descriptor_pool", c.pool, owner)>>

RECURSIVE Concat(_)
Concat(ss) == IF ss = <<>> THEN <<>> ELSE ss[1] \o Concat(Tail(ss))

drop_Pipeline_pools_first(v) ==
    <<Dropped("variant", v.id)>>
    \o Concat([i \in 1 .. Len(v.caches) |-> drop_PipelineCacheName(v.caches[i], v.id)])
    \o <<Destroyed("pipeline", v.pipeline, v.id),
         Destroyed("pipeline_layout", v.layout, v.id)>>
    \o [i \in 1 .. Len(v.set_layouts) |-> Destroyed("set_layout", v.set_layouts[i], v.id)]

drop_Pipeline_layouts_first(v) ==
    <<Dropped("variant", v.id)>>
    \o [i \in 1 .. Len(v.set_layouts) |-> Destroyed("set_layout", v.set_layouts[i], v.id)]
    \o <<Destroyed("pipeline_layout", v.layout, v.id),
         Destroyed("pipeline", v.pipeline, v.id)>>
    \o Concat([i \in 1 .. Len(v.caches) |-> drop_PipelineCacheName(v.caches[i], v.id)])

\* Dropping a Box<Pipeline<Name>>: Drop::drop runs first, then the fields are
\* dropped in declaration order, caches (each its pool) being the first field
drop_Pipeline(v) ==
    <<Dropped("variant", v.id),
      Destroyed("pipeline", v.pipeline, v.id),
      Destroyed("pipeline_layout", v.layout, v.id)>>
    \o [i \in 1 .. Len(v.set_layouts) |-> Destroyed("set_layout", v.set_layouts[i], v.id)]
    \o Concat([i \in 1 .. Len(v.caches) |-> drop_PipelineCacheName(v.caches[i], v.id)])

drop_Option(o) == IF is_none(o) THEN <<>> ELSE drop_Pipeline(unwrap(o))

drop_pipelines_reversed(ps) ==
    Concat([i \in 1 .. NumShaders |-> drop_Option(ps[NumShaders - i])])

\* the array [Option<Box<dyn Pipeline>>; N] drops its elements in index order
drop_pipelines(ps) ==
    Concat([i \in 1 .. NumShaders |-> drop_Option(ps[i - 1])])

drop_PipelineCache_module_first(p, ps, sm) ==
    <<Destroyed("render_pass", p.render, Registry)>>
    \o (IF is_none(sm) THEN <<>> ELSE <<Destroyed("shader_module", unwrap(sm).h, Registry)>>)
    \o drop_pipelines(ps)

\* The registry has no Drop of its own: its fields are dropped in declaration
\* order: pass, pipelines, shader_module, device
drop_PipelineCache(p, ps, sm) ==
    <<Destroyed("render_pass", p.render, Registry)>>
    \o drop_pipelines(ps)
    \o (IF is_none(sm) THEN <<>> ELSE <<Destroyed("shader_module", unwrap(sm).h, Registry)>>)

----------------------------------------------------------------------------
\* The registry PipelineCache at run time

idleVertex == arg_types = <<>> /\ vertex = None
idleSets == uniforms = <<>> /\ set_layouts_gen = None /\ write_sets_gen = None
idlePool == cache = None /\ pool = [created |-> FALSE]
idleExtract == file = <<>> /\ found = None
idleRegistry ==
    /\ pass = [render |-> <<Registry, 0>>]
    /\ pipelines = <<>>
    /\ shader_module = None
    /\ phase = "none"
    /\ constructed = <<>>
    /\ creates = 0
    /\ modules = <<>>
    /\ nextInst = 1
idleDevice ==
    /\ fatal = FALSE
    /\ calls = <<>>
    /\ ret = [op |-> "none"]

\* PipelineCache::new: every slot None, no shader module, a new Pass
PipelineCache_new ==
    /\ pass = [render |-> <<Registry, 1>>]
    /\ pipelines = [s \in Shaders |-> None]
    /\ shader_module = None
    /\ phase = "live"
    /\ fatal = FALSE
    /\ calls = <<Created("render_pass", <<Registry, 1>>, Registry, <<>>)>>
    /\ nextInst = 1
    /\ ret = [op |-> "new"]
    /\ constructed = <<>>
    /\ creates = 0
    /\ modules = <<>>

Init == PipelineCache_new /\ idleVertex /\ idleSets /\ idlePool /\ idleExtract

get_shader_module_rebuild(sm, h) == Some([h |-> h])

\* get_shader_module: the module is built when the field is None, h being the
\* handle of a module built now
get_shader_module(sm, h) == IF is_none(sm) THEN Some([h |-> h]) ELSE sm

\* what get and get_mut return: the Box in the slot
Returned(op, shader, slot, created) ==
    [op |-> op, shader |-> shader, val |-> unwrap(slot).id, created |-> created]

build_pipeline_evict(shader, ok, op) ==
    LET sm == get_shader_module(shader_module, <<Registry, Len(modules) + 2>>)
        built == sm # shader_module
        r == Pipeline_new(nextInst, shader, unwrap(sm).h, pass.render, <<nextInst, 1>>, ok)
    IN  /\ creates' = creates + 1
        /\ shader_module' = sm
        /\ modules' = IF built THEN Append(modules, unwrap(sm).h) ELSE modules
        /\ calls' = (IF built
                     THEN <<Created("shader_module", unwrap(sm).h, Registry, <<>>)>>
                     ELSE <<>>) \o r.events
        /\ IF is_none(r.variant)
           THEN /\ fatal' = TRUE
                /\ ret' = Panic(r.panic)
                /\ UNCHANGED <<pipelines, nextInst, constructed>>
           ELSE /\ fatal' = FALSE
                /\ pipelines' = [s \in Shaders |-> IF s = shader THEN r.variant ELSE None]
                /\ nextInst' = nextInst + 1
                /\ constructed' =
                      LET v == unwrap(r.variant)
                          made == r.events[Len(r.events)]
                      IN  Append(constructed,
                                 [id |-> v.id, name |-> v.name, pipeline |-> v.pipeline,
                                  layout |-> v.layout, set_layouts |-> v.set_layouts,
                                  module |-> made.arg[2], render_pass |-> made.arg[3]])
                /\ ret' = Returned(op, shader, pipelines'[shader], TRUE)

\* create_pipeline after its assertion (lines 614-617), called on behalf of
\* `op` (get or get_mut), which then returns the slot
build_pipeline(shader, ok, op) ==
    LET render_pass == pass.render
        sm == get_shader_module(shader_module, <<Registry, Len(modules) + 2>>)
        built == sm # shader_module
        ev0 == IF built
               THEN <<Created("shader_module", unwrap(sm).h, Registry, <<>>)>>
               ELSE <<>>
        r == Pipeline_new(nextInst, shader, unwrap(sm).h, render_pass, <<nextInst, 1>>, ok)
    IN  /\ creates' = creates + 1
        /\ shader_module' = sm
        /\ modules' = IF built THEN Append(modules, unwrap(sm).h) ELSE modules
        /\ calls' = ev0 \o r.events
        /\ IF is_none(r.variant)
           THEN /\ fatal' = TRUE
                /\ ret' = Panic(r.panic)
                /\ UNCHANGED <<pipelines, nextInst, constructed>>
           ELSE /\ fatal' = FALSE
                /\ pipelines' = [pipelines EXCEPT ![shader] = r.variant]
                /\ nextInst' = nextInst + 1
                /\ constructed' =
                      LET v == unwrap(r.variant)
                          made == r.events[Len(r.events)]
                      IN  Append(constructed,
                                 [id |-> v.id, name |-> v.name, pipeline |-> v.pipeline,
                                  layout |-> v.layout, set_layouts |-> v.set_layouts,
                                  module |-> made.arg[2], render_pass |-> made.arg[3]])
                /\ ret' = Returned(op, shader, pipelines'[shader], TRUE)

create_pipeline(shader, ok, op) ==
    IF ~is_none(pipelines[shader])
    THEN \* assert!(self.pipelines[shader as usize].is_none())
         /\ creates' = creates + 1
         /\ fatal' = TRUE
         /\ calls' = <<>>
         /\ ret' = Panic("assertion failed")
         /\ UNCHANGED <<pipelines, shader_module, modules, nextInst, constructed>>
    ELSE build_pipeline(shader, ok, op)

\* the native create calls of one Pipeline<Name>::new
NativeCalls(shader) == Len(EmittedSetLayouts(shader)) + 2

lookup_always_build(shader, op) ==
    \E ok \in 0 .. NativeCalls(shader) : build_pipeline(shader, ok, op)

lookup_always_create(shader, op) ==
    \E ok \in 0 .. NativeCalls(shader) : create_pipeline(shader, ok, op)

lookup_take_module(shader, op) ==
    IF is_none(pipelines[shader])
    THEN \E ok \in 0 .. NativeCalls(shader) : create_pipeline(shader, ok, op)
    ELSE /\ ret' = Returned(op, shader, pipelines[shader], FALSE)
         /\ calls' = <<>>
         /\ shader_module' = None
         /\ UNCHANGED <<pipelines, modules, fatal, nextInst, constructed, creates>>

\* the body shared by get and get_mut
lookup(shader, op) ==
    IF is_none(pipelines[shader])
    THEN \E ok \in 0 .. NativeCalls(shader) : create_pipeline(shader, ok, op)
    ELSE /\ ret' = Returned(op, shader, pipelines[shader], FALSE)
         /\ calls' = <<>>
         /\ UNCHANGED <<pipelines, shader_module, modules, fatal, nextInst,
                        constructed, creates>>

\* create_pipeline as a function of the registry: the slots and the module
\* after it, the native calls it makes, and the panic that ends it, if any
create_pipeline_result(shader, ok) ==
    IF ~is_none(pipelines[shader])
    THEN [pipelines |-> pipelines, shader_module |-> shader_module,
          calls |-> <<>>, panic |-> "assertion failed"]
    ELSE LET sm == get_shader_module(shader_module, <<Registry, Len(modules) + 2>>)
             r == Pipeline_new(nextInst, shader, unwrap(sm).h, pass.render,
                               <<nextInst, 1>>, ok)
             ev0 == IF sm # shader_module
                    THEN <<Created("shader_module", unwrap(sm).h, Registry, <<>>)>>
                    ELSE <<>>
         IN  [pipelines |-> IF is_none(r.variant) THEN pipelines
                            ELSE [pipelines EXCEPT ![shader] = r.variant],
              shader_module |-> sm,
              calls |-> ev0 \o r.events,
              panic |-> r.panic]

\* the slot left in place when it is already filled (lines 621, 629)
kept == [pipelines |-> pipelines, shader_module |-> shader_module,
         calls |-> <<>>, panic |-> ""]

get_mut_result_fresh(shader, ok) ==
    LET c == create_pipeline_result(shader, ok)
    IN  [registry |-> <<pass, c.pipelines, c.shader_module>>,
         calls |-> c.calls,
         panic |-> c.panic,
         val |-> IF c.panic = "" THEN Some([slot |-> shader, mutable |-> TRUE]) ELSE None]

\* get as a function of the registry: the registry after it, the native calls
\* it makes, and the shared reference into the slot that it returns
get_result(shader, ok) ==
    LET c == IF is_none(pipelines[shader]) THEN create_pipeline_result(shader, ok) ELSE kept
    IN  [registry |-> <<pass, c.pipelines, c.shader_module>>,
         calls |-> c.calls,
         panic |-> c.panic,
         val |-> IF c.panic = "" THEN Some([slot |-> shader, mutable |-> FALSE]) ELSE None]

\* get_mut likewise, returning an exclusive reference into the slot
get_mut_result(shader, ok) ==
    LET c == IF is_none(pipelines[shader]) THEN create_pipeline_result(shader, ok) ELSE kept
    IN  [registry |-> <<pass, c.pipelines, c.shader_module>>,
         calls |-> c.calls,
         panic |-> c.panic,
         val |-> IF c.panic = "" THEN Some([slot |-> shader, mutable |-> TRUE]) ELSE None]

get(shader) ==
    /\ phase = "live" /\ ~fatal
    /\ lookup(shader, "get")
    /\ UNCHANGED <<pass, phase, vtxVars, setVars, poolVars, extVars>>

get_mut(shader) ==
    /\ phase = "live" /\ ~fatal
    /\ lookup(shader, "get_mut")
    /\ UNCHANGED <<pass, phase, vtxVars, setVars, poolVars, extVars>>

\* the handle of the next object the device makes for a variant
NextOf(v) == <<v.id, Len(v.set_layouts) + Len(v.caches) + 3>>

\* Pipeline<Name>::get_cache on the variant of `shader`, reached through get_mut
get_cache(shader, index, ok) ==
    /\ phase = "live" /\ ~fatal
    /\ ~is_none(pipelines[shader])
    /\ LET v == unwrap(pipelines[shader])
           r == get_cache_loop(v.caches, index, NextOf(v), ok)
           n == Len(r.caches) - Len(v.caches)
       IN  /\ pipelines' = [pipelines EXCEPT ![shader] = Some([v EXCEPT !.caches = r.caches])]
           /\ calls' = [i \in 1 .. n |->
                          Created("descriptor_pool", r.caches[Len(v.caches) + i].pool, v.id, <<>>)]
           /\ fatal' = (r.panicked \/ index >= Len(r.caches))
           /\ ret' = IF r.panicked THEN Panic("descriptor pool")
                     ELSE IF index >= Len(r.caches) THEN Panic("index out of bounds")
                     ELSE [op |-> "get_cache", shader |-> shader, index |-> index,
                           before |-> v.caches, val |-> r.caches[index + 1]]
    /\ UNCHANGED <<pass, shader_module, modules, phase, nextInst, constructed, creates,
                   vtxVars, setVars, poolVars, extVars>>

drop_and_reuse ==
    /\ phase = "live"
    /\ calls' = drop_PipelineCache(pass, pipelines, shader_module)
    /\ pipelines' = [s \in Shaders |-> None]
    /\ shader_module' = None
    /\ ret' = [op |-> "drop"]
    /\ UNCHANGED <<pass, phase, fatal, modules, nextInst, constructed, creates,
                   vtxVars, setVars, poolVars, extVars>>

\* the registry goes out of scope (also while a panic unwinds)
drop ==
    /\ phase = "live"
    /\ calls' = drop_PipelineCache(pass, pipelines, shader_module)
    /\ pipelines' = [s \in Shaders |-> None]
    /\ shader_module' = None
    /\ phase' = "dropped"
    /\ ret' = [op |-> "drop"]
    /\ UNCHANGED <<pass, fatal, modules, nextInst, constructed, creates,
                   vtxVars, setVars, poolVars, extVars>>

Next ==
    \/ \E shader \in Shaders : get(shader)
    \/ \E shader \in Shaders : get_mut(shader)
    \/ \E shader \in Shaders, index \in 0 .. MaxIndex, ok \in 0 .. MaxIndex + 2 :
          get_cache(shader, index, ok)
    \/ drop

Spec == Init /\ [][Next]_vars

----------------------------------------------------------------------------
\* Properties of the registry (Spec)

Positions(op, kind) == {i \in DOMAIN calls : calls[i].op = op /\ calls[i].kind = kind}
PositionsOf(op, kind, h) == {i \in Positions(op, kind) : calls[i].h = h}
OwnedBy(op, id) == {i \in DOMAIN calls : calls[i].op = op /\ calls[i].owner = id}
Filled == IF phase = "live" THEN {s \in Shaders : ~is_none(pipelines[s])} ELSE {}
Variant(s) == unwrap(pipelines[s])
ConstructedFor(s) == {i \in DOMAIN constructed : constructed[i].name = s}

\* a handle the device returned to this owner
MadeFor(h, id) == h[1] = id /\ h[2] >= 1

\* the variant holds every resource its construction makes
Resources(v) ==
    /\ MadeFor(v.pipeline, v.id) /\ MadeFor(v.layout, v.id)
    /\ Len(v.set_layouts) = Len(EmittedSetLayouts(v.name))
    /\ \A i \in DOMAIN v.set_layouts : MadeFor(v.set_layouts[i], v.id)

Complete(v) ==
    /\ Resources(v)
    /\ \E i \in DOMAIN constructed : constructed[i].id = v.id

\* C1: the variant of an identity is constructed at most once, and every get or
\* get_mut of the identity returns the instance its first request constructed
C1_ConstructedOnce ==
    /\ \A s \in Shaders : Cardinality(ConstructedFor(s)) <= 1
    /\ ret.op \in {"get", "get_mut"} =>
          /\ ConstructedFor(ret.shader) # {}
          /\ LET first == CHOOSE i \in ConstructedFor(ret.shader) :
                              \A j \in ConstructedFor(ret.shader) : i <= j
             IN  /\ ret.val = constructed[first].id
                 /\ Variant(ret.shader).id = constructed[first].id

\* a later request, through the other accessor, was answered from the slot
C1_Witness ==
    /\ ret.op = "get_mut" /\ ~ret.created
    /\ Cardinality(Filled) = NumShaders

\* the handles a variant owns: pipeline, pipeline layout, set layouts, pools
OwnedHandles(v) ==
    <<v.pipeline, v.layout>> \o v.set_layouts
    \o [i \in 1 .. Len(v.caches) |-> v.caches[i].pool]

NoDuplicates(seq) == \A i, j \in DOMAIN seq : seq[i] = seq[j] => i = j

\* C2: different identities hold distinct variants, and no pipeline, pipeline
\* layout, set layout or descriptor pool belongs to two variants or caches;
\* the shader module and the render pass are what the variants have in common
C2_ExclusiveOwnership ==
    /\ \A s, t \in Filled : s # t => Variant(s).id # Variant(t).id
    /\ NoDuplicates(Concat([i \in 1 .. NumShaders |->
            IF (i - 1) \in Filled THEN OwnedHandles(Variant(i - 1)) ELSE <<>>]))
    /\ \A i, j \in DOMAIN constructed :
            /\ constructed[i].module = constructed[j].module
            /\ constructed[i].render_pass = constructed[j].render_pass

C2_Witness ==
    /\ Cardinality(Filled) = NumShaders
    /\ \A s \in Filled : Len(Variant(s).caches) >= 2
    /\ \E s \in Filled : Len(Variant(s).set_layouts) >= 2

\* C3: no shader module before the first create_pipeline, one from then on,
\* never a second one, and every pipeline is built from it
C3_ModuleBuiltOnce ==
    /\ creates = 0 => is_none(shader_module) /\ modules = <<>>
    /\ (creates > 0 /\ phase = "live") => ~is_none(shader_module)
    /\ Len(modules) <= 1
    /\ ~is_none(shader_module) => modules = <<unwrap(shader_module).h>>
    /\ \A i \in DOMAIN constructed : modules # <<>> /\ constructed[i].module = modules[1]
    /\ (Positions("create", "shader_module") # {}) => creates = 1

C3_Witness ==
    /\ Len(constructed) = NumShaders
    /\ creates = NumShaders
    /\ phase = "live"

\* C4: after get_cache(index) the list has length max(previous length, index + 1)
\* and the call returns the cache at position index; the length never decreases
C4_Post ==
    ret.op = "get_cache" =>
        LET c == Variant(ret.shader).caches
        IN  /\ Len(c) = Max(Len(ret.before), ret.index + 1)
            /\ ret.val = c[ret.index + 1]

C4_Mono ==
    \A s \in Filled : ~is_none(pipelines'[s]) =>
        Len(unwrap(pipelines'[s]).caches) >= Len(Variant(s).caches)

C4_GetCacheGrows == [](C4_Post) /\ [][C4_Mono]_vars

\* get_cache(MaxIndex) on an empty list made MaxIndex + 1 caches at once
C4_Witness ==
    /\ ret.op = "get_cache" /\ ret.index = MaxIndex
    /\ Len(ret.before) = 0
    /\ Len(Variant(ret.shader).caches) = MaxIndex + 1

\* C5: get_cache below the current length creates nothing and returns the
\* cache made earlier; no step changes a cache at a position that existed
C5_Step ==
    /\ \A s \in Filled : ~is_none(pipelines'[s]) =>
            \A i \in 1 .. Len(Variant(s).caches) :
                /\ i <= Len(unwrap(pipelines'[s]).caches)
                /\ unwrap(pipelines'[s]).caches[i] = Variant(s).caches[i]
    /\ (/\ ret'.op = "get_cache"
        /\ ret'.shader \in Filled
        /\ ret'.index < Len(Variant(ret'.shader).caches)) =>
            /\ calls' = <<>>
            /\ pipelines' = pipelines
            /\ ret'.val = Variant(ret'.shader).caches[ret'.index + 1]

C5_GetCacheKeeps == [][C5_Step]_vars

\* the list was grown to MaxIndex + 1 caches, then get_cache(1) was served
C5_Witness ==
    /\ ret.op = "get_cache" /\ ret.index = 1
    /\ Len(ret.before) = MaxIndex + 1
    /\ ret.val = ret.before[2]
    /\ calls = <<>>

Reverse(seq) == [i \in 1 .. Len(seq) |-> seq[Len(seq) + 1 - i]]

\* the variants in the order the drop released them, and in the order they
\* were built
DropOrder == LET d == SelectSeq(calls, LAMBDA e : e.op = "drop" /\ e.kind = "variant")
             IN  [i \in 1 .. Len(d) |-> d[i].owner]
BuildOrder == [i \in 1 .. Len(constructed) |-> constructed[i].id]
ShaderOf(id) == (CHOOSE v \in Range(constructed) : v.id = id).name

\* nothing is released while the registry lives; its drop releases each
\* constructed variant once and nothing that was not constructed
ReleasedOnce ==
    /\ phase = "live" => \A i \in DOMAIN calls : calls[i].op = "create"
    /\ phase = "dropped" =>
        /\ NoDuplicates(DropOrder)
        /\ Range(DropOrder) = Range(BuildOrder)
        /\ \A v \in Range(constructed) :
                Cardinality(PositionsOf("destroy", "pipeline", v.pipeline)) = 1
        /\ Cardinality(Positions("destroy", "pipeline")) = Len(constructed)

\* C8 as stated: on destruction every constructed variant is released exactly
\* once, nothing else is, and the releases run in reverse construction order
C8_ReverseConstructionOrder ==
    /\ ReleasedOnce
    /\ phase = "dropped" => DropOrder = Reverse(BuildOrder)

\* C8 amended: on destruction every constructed variant is released exactly
\* once, nothing else is, and the releases run in ascending order of the
\* identity (the slot index), whatever the construction order was
C8_SlotOrder ==
    /\ ReleasedOnce
    /\ phase = "dropped" =>
            \A i, j \in DOMAIN DropOrder :
                i < j => ShaderOf(DropOrder[i]) < ShaderOf(DropOrder[j])

\* every identity was built, the last one first, and the registry dropped
C8_Witness ==
    /\ phase = "dropped"
    /\ Len(constructed) = NumShaders
    /\ constructed[1].name = NumShaders - 1
    /\ Len(DropOrder) = NumShaders

\* C9: dropping a built variant destroys its pipeline, then its pipeline
\* layout, then each set layout made at its construction, each exactly once,
\* and nothing of the variant is destroyed before the pipeline
C9_DropOrder ==
    phase = "dropped" =>
        \A v \in Range(constructed) :
            LET p == PositionsOf("destroy", "pipeline", v.pipeline)
                l == PositionsOf("destroy", "pipeline_layout", v.layout)
                made == Range(v.set_layouts)
            IN  /\ Cardinality(p) = 1 /\ Cardinality(l) = 1
                /\ \A h \in made : Cardinality(PositionsOf("destroy", "set_layout", h)) = 1
                /\ {calls[i].h : i \in {j \in Positions("destroy", "set_layout") :
                                            calls[j].owner = v.id}} = made
                /\ \A i \in p, j \in l : i < j
                /\ \A j \in l, h \in made : \A k \in PositionsOf("destroy", "set_layout", h) : j < k
                /\ \A i \in p : \A k \in OwnedBy("destroy", v.id) : i <= k

\* a dropped variant that had two set layouts and two caches
C9_Witness ==
    /\ phase = "dropped"
    /\ \E v \in Range(constructed) :
            /\ Len(v.set_layouts) >= 2
            /\ Cardinality({i \in Positions("destroy", "descriptor_pool") :
                                calls[i].owner = v.id}) >= 2

\* where a log destroys the object of this kind and handle
DestroyedAt(log, kind, h) ==
    {i \in DOMAIN log : log[i].op = "destroy" /\ log[i].kind = kind /\ log[i].h = h}

\* the drop of the registry, seen from a variant v it held
DropsVariant(v, log, Order(_, _)) ==
    /\ \A c \in Range(v.caches) : Cardinality(DestroyedAt(log, "descriptor_pool", c.pool)) = 1
    /\ Order(v, log)

PoolsFirst(v, log) ==
    /\ \A c \in Range(v.caches) :
            \A i \in DestroyedAt(log, "descriptor_pool", c.pool),
               j \in DestroyedAt(log, "pipeline", v.pipeline) : i < j
    /\ \A i \in DestroyedAt(log, "pipeline", v.pipeline),
          j \in DestroyedAt(log, "pipeline_layout", v.layout) : i < j
    /\ \A h \in Range(v.set_layouts) :
            \A i \in DestroyedAt(log, "pipeline_layout", v.layout),
               j \in DestroyedAt(log, "set_layout", h) : i < j

PoolsLast(v, log) ==
    /\ \A i \in DestroyedAt(log, "pipeline", v.pipeline),
          j \in DestroyedAt(log, "pipeline_layout", v.layout) : i < j
    /\ \A h \in Range(v.set_layouts) :
            /\ \A i \in DestroyedAt(log, "pipeline_layout", v.layout),
                  j \in DestroyedAt(log, "set_layout", h) : i < j
            /\ \A c \in Range(v.caches) :
                    \A i \in DestroyedAt(log, "set_layout", h),
                       j \in DestroyedAt(log, "descriptor_pool", c.pool) : i < j
    /\ \A c \in Range(v.caches) :
            \A i \in DestroyedAt(log, "pipeline", v.pipeline),
               j \in DestroyedAt(log, "descriptor_pool", c.pool) : i < j
    /\ \A a, b \in DOMAIN v.caches : a < b =>
            \A i \in DestroyedAt(log, "descriptor_pool", v.caches[a].pool),
               j \in DestroyedAt(log, "descriptor_pool", v.caches[b].pool) : i < j

HeldWithCaches == {s \in Filled : Len(Variant(s).caches) >= 1}

\* C13 as stated: a variant holding caches is destroyed in the reverse of the
\* construction order: each of its descriptor pools, then the pipeline, then
\* the pipeline layout, then the set layouts
C13_PoolsBeforePipeline ==
    [][(phase = "live" /\ phase' = "dropped") =>
            \A s \in HeldWithCaches : DropsVariant(Variant(s), calls', PoolsFirst)]_vars

\* C13 amended: the pipeline is destroyed first, then the pipeline layout,
\* then the set layouts, and each descriptor pool of the variant after them,
\* in cache-list order, each pool exactly once
C13_PoolsAfterSetLayouts ==
    [][(phase = "live" /\ phase' = "dropped") =>
            \A s \in HeldWithCaches : DropsVariant(Variant(s), calls', PoolsLast)]_vars

\* a dropped variant that had set layouts and MaxIndex + 1 caches
C13_Witness ==
    /\ phase = "dropped"
    /\ \E v \in Range(constructed) :
            /\ v.set_layouts # <<>>
            /\ Cardinality({i \in Positions("destroy", "descriptor_pool") :
                                calls[i].owner = v.id}) = MaxIndex + 1

\* the place of a kind of object in the construction of a variant
Rank(kind) ==
    CASE kind = "set_layout" -> 0
      [] kind = "pipeline_layout" -> 1
      [] kind = "pipeline" -> 2
      [] kind = "descriptor_pool" -> 3
      [] OTHER -> 0

VariantCreates == {i \in DOMAIN calls : calls[i].op = "create" /\ calls[i].owner # Registry}

\* C14: within one construction the set layouts are created in ascending set
\* order, then the pipeline layout, then the pipeline; a descriptor pool is
\* created only for a variant whose pipeline exists
C14_CreationOrder ==
    /\ \A i, j \in VariantCreates :
            (i < j /\ calls[i].owner = calls[j].owner) =>
                /\ Rank(calls[i].kind) <= Rank(calls[j].kind)
                /\ (calls[i].kind = "set_layout" /\ calls[j].kind = "set_layout") =>
                        calls[i].arg.set < calls[j].arg.set
                /\ calls[i].kind \in {"pipeline_layout", "pipeline"} =>
                        calls[i].kind # calls[j].kind
    /\ \A i \in VariantCreates :
            /\ calls[i].kind = "pipeline_layout" =>
                    LET made == SelectSeq(SubSeq(calls, 1, i - 1),
                                    LAMBDA e : /\ e.op = "create" /\ e.kind = "set_layout"
                                               /\ e.owner = calls[i].owner)
                    IN  calls[i].arg = [k \in 1 .. Len(made) |-> made[k].h]
            /\ calls[i].kind = "pipeline" =>
                    \E c \in Range(constructed) :
                        /\ c.id = calls[i].owner
                        /\ Len(c.set_layouts) = Len(EmittedSetLayouts(c.name))
                        /\ \E j \in VariantCreates :
                                /\ j < i /\ calls[j].kind = "pipeline_layout"
                                /\ calls[j].h = c.layout /\ calls[j].arg = c.set_layouts
            /\ calls[i].kind = "descriptor_pool" =>
                    \E c \in Range(constructed) :
                        /\ c.id = calls[i].owner
                        /\ \A j \in VariantCreates : calls[j].kind # "pipeline"

\* a variant with two set layouts was built by this call
C14_Witness ==
    /\ ret.op \in {"get", "get_mut"} /\ ret.created
    /\ Cardinality(Positions("create", "set_layout")) >= 2
    /\ Cardinality(Positions("create", "pipeline")) = 1

\* the lifecycle state of the variant of an identity
Lifecycle(s) ==
    IF phase = "live" /\ ~is_none(pipelines[s]) THEN "Built"
    ELSE IF ConstructedFor(s) # {} THEN "Destroyed"
    ELSE "Uninitialized"

C19_Step ==
    \A s \in Shaders :
        LET before == Lifecycle(s)
            after == Lifecycle(s)'
        IN  /\ <<before, after>> \in {<<"Uninitialized", "Uninitialized">>,
                                       <<"Uninitialized", "Built">>,
                                       <<"Built", "Built">>,
                                       <<"Built", "Destroyed">>,
                                       <<"Destroyed", "Destroyed">>}
            /\ (before = "Uninitialized" /\ after = "Built") =>
                    LET v == unwrap(pipelines'[s])
                    IN  /\ Resources(v)
                        /\ Cardinality({i \in DOMAIN calls' :
                                /\ calls'[i].op = "create" /\ calls'[i].owner = v.id
                                /\ calls'[i].h \in {v.pipeline, v.layout} \cup Range(v.set_layouts)})
                                = Len(v.set_layouts) + 2
            /\ (before = "Built" /\ after = "Built") =>
                    /\ unwrap(pipelines'[s]).pipeline = Variant(s).pipeline
                    /\ unwrap(pipelines'[s]).layout = Variant(s).layout
                    /\ unwrap(pipelines'[s]).set_layouts = Variant(s).set_layouts
            /\ (before = "Built" /\ after = "Destroyed") =>
                    \E i \in DOMAIN calls' :
                        calls'[i] = Destroyed("pipeline", Variant(s).pipeline, Variant(s).id)
            /\ before = "Destroyed" => UNCHANGED vars

\* C19: a variant only moves Uninitialized -> Built -> Destroyed; pipeline,
\* layout and set layouts appear in one step, a Built variant is never
\* Uninitialized again and nothing happens to a Destroyed one
C19_Lifecycle == [][C19_Step]_vars

\* the registry was dropped with one identity built and another never built
C19_Witness ==
    /\ phase = "dropped"
    /\ \E s, t \in Shaders : Lifecycle(s) = "Destroyed" /\ Lifecycle(t) = "Uninitialized"

\* C20: the assertion of create_pipeline never fails: create_pipeline is
\* reached only for an identity whose slot is empty
C20_AssertHolds ==
    /\ ~(ret.op = "panic" /\ ret.cause = "assertion failed")
    /\ creates >= Len(constructed)
    /\ (ret.op \in {"get", "get_mut"} /\ ret.created) =>
            constructed[Len(constructed)].name = ret.shader

\* every identity was built, and a further get found its slot filled
C20_Witness ==
    /\ creates = NumShaders /\ Len(constructed) = NumShaders
    /\ ret.op = "get" /\ ~ret.created

\* the fields of the registry
RegistryState == <<pass, pipelines, shader_module>>

BuildCauses == {"descriptor set layout", "pipeline layout", "graphics pipeline"}

C21_Step ==
    /\ ret'.op \in {"get", "get_mut"} =>
            /\ \A t \in Shaders : t # ret'.shader => pipelines'[t] = pipelines[t]
            /\ pass' = pass
            /\ ~is_none(pipelines[ret'.shader]) =>
                    /\ RegistryState' = RegistryState
                    /\ calls' = <<>>
                    /\ ~ret'.created
    /\ (ret'.op = "panic" /\ ret'.cause \in BuildCauses) =>
            pipelines' = pipelines /\ pass' = pass
    /\ phase' = "live" =>
            \A s \in Filled :
                /\ ~is_none(pipelines'[s])
                /\ unwrap(pipelines'[s]).id = Variant(s).id

\* C21: a new registry has every slot empty; get and get_mut change at most
\* the slot asked for and the shader module, and nothing when the slot is
\* filled; a filled slot keeps its variant while the registry lives
C21_SlotFrame ==
    /\ [](ret.op = "new" => \A s \in Shaders : is_none(pipelines[s]))
    /\ [][C21_Step]_vars

\* the last identity was built by a get while every other slot was filled
C21_Witness ==
    /\ ret.op = "get" /\ ret.created
    /\ Cardinality(Filled) = NumShaders
    /\ \E s \in Filled : s # ret.shader /\ Len(Variant(s).caches) >= 1

\* C22: a filled slot implies that the shader module is present, and a present
\* shader module stays the same one until the registry is destroyed
C22_ModulePresent ==
    /\ [](Filled # {} => ~is_none(shader_module))
    /\ [][(~is_none(shader_module) /\ phase' = "live") =>
                shader_module' = shader_module]_vars

\* every slot is filled, the module is the one built first, and caches exist
C22_Witness ==
    /\ Cardinality(Filled) = NumShaders
    /\ ~is_none(shader_module) /\ modules = <<unwrap(shader_module).h>>
    /\ ret.op = "get_cache"

\* get and get_mut agree on every identity and every outcome of the native calls
C23_SameEffect ==
    \A shader \in Shaders : \A ok \in 0 .. NativeCalls(shader) :
        LET a == get_result(shader, ok)
            b == get_mut_result(shader, ok)
        IN  /\ a.registry = b.registry
            /\ a.calls = b.calls
            /\ a.panic = b.panic
            /\ is_none(a.val) = is_none(b.val)
            /\ ~is_none(a.val) =>
                    /\ unwrap(a.val).slot = unwrap(b.val).slot
                    /\ ~is_none(a.registry[2][unwrap(a.val).slot])

\* the step ends in the registry and with the value that the result r describes
IsResult(r, shader) ==
    /\ RegistryState' = r.registry
    /\ calls' = r.calls
    /\ IF r.panic = ""
       THEN /\ ret'.op \in {"get", "get_mut"}
            /\ unwrap(r.val).slot = shader
            /\ ret'.val = unwrap(pipelines'[shader]).id
            /\ unwrap(r.val).mutable = (ret'.op = "get_mut")
       ELSE ret' = Panic(r.panic)

C23_Step ==
    /\ ret'.op = "get" =>
            \E ok \in 0 .. NativeCalls(ret'.shader) :
                IsResult(get_result(ret'.shader, ok), ret'.shader)
    /\ ret'.op = "get_mut" =>
            \E ok \in 0 .. NativeCalls(ret'.shader) :
                IsResult(get_mut_result(ret'.shader, ok), ret'.shader)
    /\ (ret'.op = "panic" /\ ret'.cause \in BuildCauses) =>
            \E shader \in Shaders : \E ok \in 0 .. NativeCalls(shader) :
                /\ IsResult(get_result(shader, ok), shader)
                /\ IsResult(get_mut_result(shader, ok), shader)

\* C23: from every state, for every identity and every outcome of the native
\* calls, get and get_mut leave the same registry, make the same native calls,
\* panic alike and return the variant of the same slot, which is then filled;
\* and every step of get and of get_mut is such an outcome
C23_GetEqualsGetMut ==
    /\ []((phase = "live" /\ ~fatal) => C23_SameEffect)
    /\ [][C23_Step]_vars

\* get_mut built an identity with two set layouts, one slot being filled
C23_Witness ==
    /\ ret.op = "get_mut" /\ ret.created
    /\ Len(Variant(ret.shader).set_layouts) >= 2
    /\ Cardinality(Filled) >= 2

\* where the drop of the registry releases a shader module
ModuleReleases == Positions("destroy", "shader_module")

\* the constructed variants whose pipeline was built from the module h
BuiltFrom(h) == {v \in Range(constructed) : v.module = h}

\* C24: when the registry is destroyed the shader module is released after the
\* drop and after every native destroy of each constructed variant built from
\* it, and it is released at most once
C24_ModuleReleasedLast ==
    phase = "dropped" =>
        /\ Cardinality(ModuleReleases) <= 1
        /\ \A m \in ModuleReleases :
                /\ calls[m].h \in Range(modules)
                /\ \A v \in BuiltFrom(calls[m].h) :
                        /\ \E j \in OwnedBy("drop", v.id) : j < m
                        /\ \A j \in OwnedBy("drop", v.id) \cup OwnedBy("destroy", v.id) : j < m
                        /\ \A c \in DestroyedAt(calls, "pipeline", v.pipeline) : c < m

\* the registry was dropped holding every identity, each built from the one
\* module, one of them with a descriptor cache
C24_Witness ==
    /\ phase = "dropped"
    /\ ModuleReleases # {}
    /\ \A m \in ModuleReleases : Cardinality(BuiltFrom(calls[m].h)) = NumShaders
    /\ Positions("destroy", "descriptor_pool") # {}

----------------------------------------------------------------------------
\* gen::pipeline run on one vertex input list (SpecVertex)

InitVertex ==
    /\ arg_types \in SeqsUpTo(VertexTypes, MaxArgs)
    /\ vertex = None
    /\ idleSets /\ idlePool /\ idleRegistry /\ idleDevice /\ idleExtract

\* lines 176-207 of gen::pipeline: the binding description and the attributes
pipeline_vertex ==
    /\ is_none(vertex)
    /\ vertex' = Some([bindings |-> <<vertex_bindings(arg_types)>>,
                       attributes |-> vertex_attributes(arg_types)])
    /\ UNCHANGED <<arg_types, rtVars, setVars, poolVars, extVars>>

NextVertex == pipeline_vertex

SpecVertex == InitVertex /\ [][NextVertex]_vars

\* the sizes and formats the inputs stand for: 2, 3 and 4 floats of 4 bytes
InputSize(t) == IF t = "Vec2" THEN 8 ELSE IF t = "Vec3" THEN 12 ELSE 16
InputFormat(t) ==
    IF t = "Vec2" THEN "R32G32_SFLOAT"
    ELSE IF t = "Vec3" THEN "R32G32B32_SFLOAT" ELSE "R32G32B32A32_SFLOAT"
SizeBefore(k) == SeqSum([i \in 1 .. k - 1 |-> InputSize(arg_types[i])])

\* C6: one binding, slot 0, whose stride is the sum of the input sizes;
\* attribute k has location k, the format of input k and, as offset, the sum
\* of the sizes of the inputs before it
C6_VertexLayout ==
    ~is_none(vertex) =>
        LET out == unwrap(vertex)
        IN  /\ Len(out.bindings) = 1
            /\ out.bindings[1].binding = 0
            /\ out.bindings[1].stride = SizeBefore(Len(arg_types) + 1)
            /\ Len(out.attributes) = Len(arg_types)
            /\ \A k \in 1 .. Len(arg_types) :
                    /\ out.attributes[k].binding = 0
                    /\ out.attributes[k].location = k - 1
                    /\ out.attributes[k].format = InputFormat(arg_types[k])
                    /\ out.attributes[k].offset = SizeBefore(k)

\* [Vec3, Vec3, Vec2]: stride 32, offsets 0, 12, 24
C6_Witness ==
    /\ arg_types = <<"Vec3", "Vec3", "Vec2">>
    /\ ~is_none(vertex)
    /\ unwrap(vertex).bindings[1].stride = 32
    /\ unwrap(vertex).attributes[3].offset = 24

----------------------------------------------------------------------------
\* gen::pipeline run on one uniform list (SpecSets)

InitSets ==
    /\ uniforms \in SeqsUpTo(UniformDecls, MaxUniforms)
    /\ set_layouts_gen = None
    /\ write_sets_gen = None
    /\ idleVertex /\ idlePool /\ idleRegistry /\ idleDevice /\ idleExtract

\* lines 290-291 of gen::pipeline: each of the two calls collects and iterates
\* a HashSet of its own
pipeline_uniforms ==
    /\ is_none(set_layouts_gen)
    /\ \E order1 \in Orders(distinct_sets(uniforms)) :
          set_layouts_gen' = Some(set_layouts_methods(uniforms, order1))
    /\ \E order2 \in Orders(distinct_sets(uniforms)) :
          write_sets_gen' = Some(write_set_methods(uniforms, order2))
    /\ UNCHANGED <<uniforms, rtVars, vtxVars, poolVars, extVars>>

NextSets == pipeline_uniforms

SpecSets == InitSets /\ [][NextSets]_vars

\* C7: the set layout list has one entry per distinct set index, in strictly
\* ascending order, and the write_set methods are emitted for the same set
\* indices in the same order
C7_SortedSets ==
    ~is_none(set_layouts_gen) =>
        LET layouts == unwrap(set_layouts_gen)
            writes == unwrap(write_sets_gen)
            declared == {uniforms[i].descriptor_set : i \in DOMAIN uniforms}
        IN  /\ Len(layouts) = Cardinality(declared)
            /\ {layouts[i].set : i \in DOMAIN layouts} = declared
            /\ \A i, j \in DOMAIN layouts : i < j => layouts[i].set < layouts[j].set
            /\ Len(writes) = Len(layouts)
            /\ \A i \in DOMAIN layouts : writes[i].set = layouts[i].set

\* sets declared in the order 2, 0, 1 give the layouts of sets 0, 1, 2
C7_Witness ==
    /\ Len(uniforms) = 3
    /\ [i \in 1 .. 3 |-> uniforms[i].descriptor_set] = <<2, 0, 1>>
    /\ ~is_none(set_layouts_gen)
    /\ [i \in 1 .. 3 |-> unwrap(set_layouts_gen)[i].set] = <<0, 1, 2>>

\* the layout entry a declared binding asks for
Entry(u) ==
    [binding |-> u.binding, descriptor_type |-> get_descriptor_type(u),
     descriptor_count |-> 1, stage_flags |-> u.stage]

Count(seq, x) == Cardinality({i \in DOMAIN seq : seq[i] = x})

\* C15: every declared binding is one entry (slot, kind, count 1, stage) of
\* the layout of its own set and of no other layout, and a layout holds
\* nothing but the bindings declared for its set
C15_BindingsPerSet ==
    ~is_none(set_layouts_gen) =>
        LET layouts == unwrap(set_layouts_gen)
            Declared(set) == SelectSeq(uniforms, LAMBDA u : u.descriptor_set = set)
        IN  /\ SeqSum([i \in DOMAIN layouts |-> Len(layouts[i].bindings)]) = Len(uniforms)
            /\ \A i \in DOMAIN uniforms :
                    Cardinality({l \in DOMAIN layouts :
                                    layouts[l].set = uniforms[i].descriptor_set}) = 1
            /\ \A l \in DOMAIN layouts :
                    /\ \A k \in DOMAIN layouts[l].bindings :
                            \E u \in Range(Declared(layouts[l].set)) :
                                layouts[l].bindings[k] = Entry(u)
                    /\ \A u \in Range(Declared(layouts[l].set)) :
                            Count(layouts[l].bindings, Entry(u))
                                = Count(Declared(layouts[l].set), u)

\* two bindings of set 1 around one of set 0: two layouts, of one and two entries
C15_Witness ==
    /\ Len(uniforms) = 3
    /\ [i \in 1 .. 3 |-> uniforms[i].descriptor_set] = <<1, 0, 1>>
    /\ uniforms[1] # uniforms[3]
    /\ ~is_none(set_layouts_gen)
    /\ [i \in 1 .. 2 |-> Len(unwrap(set_layouts_gen)[i].bindings)] = <<1, 2>>

\* the bindings declared for a set, in declaration order
DeclaredFor(set) == SelectSeq(uniforms, LAMBDA u : u.descriptor_set = set)

\* C16: within a set, the layout entries and the parameters of the write
\* operation follow the declaration order of the bindings, whatever their slots
C16_DeclarationOrder ==
    ~is_none(set_layouts_gen) =>
        /\ \A l \in DOMAIN unwrap(set_layouts_gen) :
                LET layout == unwrap(set_layouts_gen)[l]
                    decl == DeclaredFor(layout.set)
                IN  [k \in DOMAIN layout.bindings |-> layout.bindings[k].binding]
                        = [k \in DOMAIN decl |-> decl[k].binding]
        /\ \A w \in DOMAIN unwrap(write_sets_gen) :
                LET write == unwrap(write_sets_gen)[w]
                    decl == DeclaredFor(write.set)
                IN  /\ [k \in DOMAIN write.args |-> write.args[k].name]
                            = [k \in DOMAIN decl |-> decl[k].name]
                    /\ [k \in DOMAIN write.writes |-> write.writes[k].dst_binding]
                            = [k \in DOMAIN decl |-> decl[k].binding]

\* slot 1 declared before slot 0 in set 0: emitted as 1, 0
C16_Witness ==
    /\ uniforms = <<Decl(0, 1), Decl(0, 0)>>
    /\ ~is_none(set_layouts_gen)
    /\ [k \in 1 .. 2 |-> unwrap(set_layouts_gen)[1].bindings[k].binding] = <<1, 0>>
    /\ [k \in 1 .. 2 |-> unwrap(write_sets_gen)[1].args[k].name]
            = <<Decl(0, 1).name, Decl(0, 0).name>>

\* C17: write_set_<index> builds one write record per binding declared for
\* the set, each for the caller's set, the binding's slot and kind, applies
\* them in one update call, and takes one resource parameter per binding
C17_WriteSet ==
    ~is_none(write_sets_gen) =>
        \A w \in DOMAIN unwrap(write_sets_gen) :
            LET write == unwrap(write_sets_gen)[w]
                decl == DeclaredFor(write.set)
            IN  /\ decl # <<>>
                /\ Len(write.writes) = Len(decl)
                /\ Len(write.args) = Len(decl)
                /\ write.updates = 1
                /\ \A k \in DOMAIN write.writes :
                        /\ write.writes[k].dst_set = "set"
                        /\ write.writes[k].dst_binding = decl[k].binding
                        /\ write.writes[k].descriptor_type = get_descriptor_type(decl[k])
                        /\ write.writes[k].dst_array_element = 0

\* set 0 with two bindings of different kinds, set 1 with one
C17_Witness ==
    /\ uniforms = <<Decl(0, 0), Decl(1, 0), Decl(0, 1)>>
    /\ ~is_none(write_sets_gen)
    /\ Len(unwrap(write_sets_gen)) = 2
    /\ Len(unwrap(write_sets_gen)[1].writes) = 2
    /\ unwrap(write_sets_gen)[1].writes[1].descriptor_type
            # unwrap(write_sets_gen)[1].writes[2].descriptor_type

\* the (slot, kind) pairs of the layout emitted for a set, in emission order
LayoutPairs(set) ==
    LET l == SelectSeq(unwrap(set_layouts_gen), LAMBDA x : x.set = set)[1].bindings
    IN  [k \in DOMAIN l |-> <<l[k].binding, l[k].descriptor_type>>]

\* the (destination slot, kind) pairs that write_set_<set> writes, in order
WritePairs(set) ==
    LET w == SelectSeq(unwrap(write_sets_gen), LAMBDA x : x.set = set)[1].writes
    IN  [k \in DOMAIN w |-> <<w[k].dst_binding, w[k].descriptor_type>>]

\* C25: for every set index, the (slot, kind) pairs of the emitted layout are,
\* entry for entry and in the same order, the (destination slot, kind) pairs
\* that the write operation of the set writes
C25_WritesMatchLayout ==
    ~is_none(set_layouts_gen) =>
        /\ {unwrap(set_layouts_gen)[i].set : i \in DOMAIN unwrap(set_layouts_gen)}
                = distinct_sets(uniforms)
        /\ {unwrap(write_sets_gen)[i].set : i \in DOMAIN unwrap(write_sets_gen)}
                = distinct_sets(uniforms)
        /\ \A set \in distinct_sets(uniforms) :
                /\ LayoutPairs(set) = WritePairs(set)
                /\ \A k \in DOMAIN WritePairs(set) :
                        \E j \in DOMAIN LayoutPairs(set) :
                            LayoutPairs(set)[j] = WritePairs(set)[k]

\* a set whose two bindings are declared slot 1 first, then slot 0, with
\* different kinds, next to another set
C25_Witness ==
    /\ ~is_none(set_layouts_gen)
    /\ Cardinality(distinct_sets(uniforms)) >= 2
    /\ \E set \in distinct_sets(uniforms) :
            /\ Len(WritePairs(set)) = 2
            /\ WritePairs(set)[1][1] > WritePairs(set)[2][1]
            /\ WritePairs(set)[1][2] # WritePairs(set)[2][2]

----------------------------------------------------------------------------
\* One emitted descriptor cache PipelineCache<Name> and its pool (SpecPool)

uniform_count == 32
sampler_count == 16
input_count == 3
set_count == 16

pool_create_info_swapped ==
    [max_sets |-> uniform_count,
     pool_sizes |-> [UNIFORM_BUFFER |-> set_count,
                     COMBINED_IMAGE_SAMPLER |-> sampler_count,
                     INPUT_ATTACHMENT |-> input_count],
     flags |-> "FREE_DESCRIPTOR_SET"]

\* the DescriptorPoolCreateInfo built by PipelineCache<Name>::new
pool_create_info ==
    [max_sets |-> set_count,
     pool_sizes |-> [UNIFORM_BUFFER |-> uniform_count,
                     COMBINED_IMAGE_SAMPLER |-> sampler_count,
                     INPUT_ATTACHMENT |-> input_count],
     flags |-> "FREE_DESCRIPTOR_SET"]

\* The set layouts callers pass to allocate, each by the number of descriptors
\* of each kind a set of that layout takes from the pool
PoolLayouts ==
    << [UNIFORM_BUFFER |-> 1, COMBINED_IMAGE_SAMPLER |-> 0, INPUT_ATTACHMENT |-> 0],
       [UNIFORM_BUFFER |-> 16, COMBINED_IMAGE_SAMPLER |-> 0, INPUT_ATTACHMENT |-> 0],
       [UNIFORM_BUFFER |-> 0, COMBINED_IMAGE_SAMPLER |-> 8, INPUT_ATTACHMENT |-> 0],
       [UNIFORM_BUFFER |-> 0, COMBINED_IMAGE_SAMPLER |-> 0, INPUT_ATTACHMENT |-> 3] >>

LayoutIds == DOMAIN PoolLayouts

\* how many sets of each layout a batch holds
BagOf(batch) == [l \in LayoutIds |-> Cardinality({i \in DOMAIN batch : batch[i] = l})]

\* sets and descriptors of one kind that the live sets of a pool take
SetsIn(live) == SeqSum([l \in LayoutIds |-> live[l]])
DescriptorsIn(live, kind) == SeqSum([l \in LayoutIds |-> live[l] * PoolLayouts[l][kind]])

\* The device's allocate_descriptor_sets on a pool of fixed capacity: the batch
\* is allocated as a whole, or the call fails when the pool has no room for it
\* or when the device declines (dev_ok false: memory, fragmentation)
device_allocate(p, batch, dev_ok) ==
    LET after == [l \in LayoutIds |-> p.live[l] + BagOf(batch)[l]]
        fits == /\ SetsIn(after) <= p.info.max_sets
                /\ \A kind \in DOMAIN p.info.pool_sizes :
                        DescriptorsIn(after, kind) <= p.info.pool_sizes[kind]
    IN  IF dev_ok /\ fits
        THEN [ok |-> TRUE, pool |-> [p EXCEPT !.live = after]]
        ELSE [ok |-> FALSE, pool |-> p]

\* PipelineCache<Name>::new
cache_new(dev_ok) ==
    /\ is_none(cache) /\ ~pool.created /\ ~fatal
    /\ IF dev_ok
       THEN /\ pool' = [created |-> TRUE, destroyed |-> FALSE, h |-> <<1, 1>>,
                        info |-> pool_create_info, live |-> [l \in LayoutIds |-> 0]]
            /\ cache' = Some(PipelineCacheName_new(<<1, 1>>))
            /\ calls' = <<Created("descriptor_pool", <<1, 1>>, 1, pool_create_info)>>
            /\ ret' = [op |-> "new"]
            /\ UNCHANGED fatal
       ELSE /\ fatal' = TRUE
            /\ calls' = <<>>
            /\ ret' = Panic("descriptor pool")
            /\ UNCHANGED <<cache, pool>>
    /\ UNCHANGED <<registryVars, vtxVars, setVars, extVars>>

\* allocate: one batched call, whose failure panics; the sets returned are one
\* per layout of the batch
allocate(batch, dev_ok) ==
    /\ ~is_none(cache) /\ ~fatal
    /\ LET r == device_allocate(pool, batch, dev_ok)
       IN  IF r.ok
           THEN /\ pool' = r.pool
                /\ ret' = [op |-> "allocate", layouts |-> batch, before |-> pool.live,
                           val |-> batch]
                /\ UNCHANGED fatal
           ELSE /\ fatal' = TRUE
                /\ ret' = Panic("descriptor sets")
                /\ UNCHANGED pool
    /\ calls' = <<>>
    /\ UNCHANGED <<cache, registryVars, vtxVars, setVars, extVars>>

\* free: the batch is a list of live sets of this pool
free(batch) ==
    /\ ~is_none(cache) /\ ~fatal
    /\ \A l \in LayoutIds : BagOf(batch)[l] <= pool.live[l]
    /\ pool' = [pool EXCEPT !.live = [l \in LayoutIds |-> pool.live[l] - BagOf(batch)[l]]]
    /\ ret' = [op |-> "free"]
    /\ calls' = <<>>
    /\ UNCHANGED <<cache, fatal, registryVars, vtxVars, setVars, extVars>>

\* Drop for PipelineCache<Name>: the pool goes, and with it every set in it
cache_drop ==
    /\ ~is_none(cache)
    /\ calls' = drop_PipelineCacheName(unwrap(cache), 1)
    /\ pool' = [pool EXCEPT !.destroyed = TRUE, !.live = [l \in LayoutIds |-> 0]]
    /\ cache' = None
    /\ ret' = [op |-> "drop"]
    /\ UNCHANGED <<fatal, registryVars, vtxVars, setVars, extVars>>

InitPool == idlePool /\ idleVertex /\ idleSets /\ idleRegistry /\ idleDevice /\ idleExtract

\* the batches of up to MaxBatch layouts, the order within a batch being of
\* no consequence to the pool
Batches == {b \in SeqsUpTo(LayoutIds, MaxBatch) :
                b # <<>> /\ \A i, j \in DOMAIN b : i < j => b[i] <= b[j]}

NextPool ==
    \/ \E dev_ok \in BOOLEAN : cache_new(dev_ok)
    \/ \E batch \in Batches, dev_ok \in BOOLEAN : allocate(batch, dev_ok)
    \/ \E batch \in Batches : free(batch)
    \/ cache_drop

SpecPool == InitPool /\ [][NextPool]_vars

WithinLimits(live) ==
    /\ SetsIn(live) <= 16
    /\ DescriptorsIn(live, "UNIFORM_BUFFER") <= 32
    /\ DescriptorsIn(live, "COMBINED_IMAGE_SAMPLER") <= 16
    /\ DescriptorsIn(live, "INPUT_ATTACHMENT") <= 3

\* C10: the sets allocated from the pool never exceed 16 and the descriptors
\* in use never exceed 32 uniform buffers, 16 combined image samplers and 3
\* input attachments; an allocate that returns has returned one set per layout,
\* all of them within these limits, any other allocate having panicked
C10_PoolLimits ==
    /\ pool.created => WithinLimits(pool.live)
    /\ ret.op = "allocate" =>
            /\ Len(ret.val) = Len(ret.layouts)
            /\ WithinLimits([l \in LayoutIds |-> ret.before[l] + BagOf(ret.layouts)[l]])
            /\ ~fatal
    /\ (ret.op = "panic" /\ ret.cause = "descriptor sets") => fatal

\* the pool is full (16 sets) and a further allocate has panicked
C10_Witness ==
    /\ pool.created /\ ~pool.destroyed
    /\ SetsIn(pool.live) = 16
    /\ fatal /\ ret.op = "panic" /\ ret.cause = "descriptor sets"

PoolEvents(log, op) ==
    {i \in DOMAIN log : log[i].op = op /\ log[i].kind = "descriptor_pool"}

IsDestroyed(p) == p.created /\ p.destroyed

C18_State ==
    /\ ~is_none(cache) =>
            pool.created /\ ~IsDestroyed(pool) /\ unwrap(cache).pool = pool.h
    /\ (pool.created /\ is_none(cache)) => IsDestroyed(pool)
    /\ ret.op \in {"allocate", "free"} => pool.created /\ ~IsDestroyed(pool)

C18_Step ==
    /\ (is_none(cache) /\ ~is_none(cache')) <=> Cardinality(PoolEvents(calls', "create")) = 1
    /\ (~is_none(cache) /\ is_none(cache')) <=> Cardinality(PoolEvents(calls', "destroy")) = 1
    /\ Cardinality(PoolEvents(calls', "create")) <= 1
    /\ Cardinality(PoolEvents(calls', "destroy")) <= 1
    /\ \A i \in PoolEvents(calls', "create") : ~pool.created /\ calls'[i].h = pool'.h
    /\ \A i \in PoolEvents(calls', "destroy") : calls'[i].h = pool.h /\ IsDestroyed(pool')
    /\ (pool.created /\ pool' # pool) => ret'.op \in {"allocate", "free", "drop"}
    /\ (pool.created /\ pool' # pool /\ ~is_none(cache')) => ret'.op \in {"allocate", "free"}
    /\ pool.created => pool'.created /\ pool'.h = pool.h /\ pool'.info = pool.info
    /\ IsDestroyed(pool) => pool' = pool /\ is_none(cache')

\* C18: a descriptor cache creates one pool, at its construction, and destroys
\* it once, at its destruction; between the two only allocate and free change
\* the pool, and nothing happens on the pool after its destruction
C18_PoolLifecycle == [](C18_State) /\ [][C18_Step]_vars

\* the cache was dropped and its pool destroyed with it
C18_Witness ==
    /\ pool.created /\ pool.destroyed /\ is_none(cache)
    /\ ret.op = "drop"
    /\ Cardinality(PoolEvents(calls, "destroy")) = 1

----------------------------------------------------------------------------
\* Failing native calls (SpecNative): one program holds either a registry or
\* a descriptor cache of its own, and runs the operations of what it holds

InitNative == Init \/ InitPool

NextNative ==
    \/ phase = "live" /\ Next
    \/ phase = "none" /\ NextPool

SpecNative == InitNative /\ [][NextNative]_vars

NativeCauses == {"descriptor set layout", "pipeline layout", "graphics pipeline",
                 "descriptor pool", "descriptor sets"}

C11_State ==
    /\ (ret.op = "panic" /\ ret.cause \in NativeCauses) => fatal
    /\ fatal => ret.op \in {"panic", "drop"}
    /\ \A s \in Filled :
            /\ Complete(Variant(s))
            /\ \A i \in DOMAIN Variant(s).caches :
                    MadeFor(Variant(s).caches[i].pool, Variant(s).id)
    /\ ~is_none(cache) => pool.created /\ unwrap(cache).pool = pool.h

C11_Step ==
    (~fatal /\ fatal') =>
        /\ ret'.op = "panic"
        /\ phase = "live" => \A s \in Shaders : is_none(pipelines[s]) => is_none(pipelines'[s])
        /\ phase = "none" => cache' = cache /\ pool' = pool

\* C11: a failed native creation or allocation call ends the operation in the
\* fatal state without a return value; the slot being built stays empty, every
\* stored variant holds all its resources, every cache of a list has its pool
C11_FailureIsFatal == [](C11_State) /\ [][C11_Step]_vars

\* the pipeline creation failed after the set layouts and the pipeline layout
\* had been made, and the slot is still empty
C11_Witness ==
    /\ fatal /\ ret.op = "panic" /\ ret.cause = "graphics pipeline"
    /\ calls # <<>> /\ calls[Len(calls)].kind = "pipeline_layout"
    /\ Cardinality(Positions("create", "set_layout")) >= 2
    /\ \E s \in Shaders : is_none(pipelines[s])

----------------------------------------------------------------------------
\* pipewriter::get_pipelines on one parsed shader file (SpecExtract)

\* attributes as syn parses them: #[inline] is a Meta::Path, #[doc = ".."] a
\* Meta::NameValue, #[name(nested, ..)] a Meta::List; a nested element is a
\* path made of one ident, or something else (a literal, a name = value)
MetaPath(name) == [meta |-> "path", name |-> name, nested |-> <<>>]
MetaList(name, nested) == [meta |-> "list", name |-> name, nested |-> nested]
NestedPath(ident) == [path |-> TRUE, ident |-> ident]
NestedOther == [path |-> FALSE, ident |-> ""]

\* the attribute lists of the functions of the model; no function names both
\* stages
FnAttrs ==
    { <<>>,
      <<MetaPath("inline")>>,
      <<MetaList("allow", <<NestedPath("unused")>>)>>,
      <<MetaList("spirv", <<NestedPath("vertex")>>)>>,
      <<MetaList("spirv", <<NestedPath("fragment")>>)>>,
      <<MetaPath("inline"), MetaList("spirv", <<NestedPath("fragment")>>)>>,
      <<MetaList("allow", <<NestedPath("unused")>>),
        MetaList("spirv", <<NestedOther, NestedPath("fragment")>>)>>,
      <<MetaList("spirv", <<NestedPath("unroll_loops")>>)>>,
      <<MetaList("spirv", <<NestedPath("unroll_loops")>>),
        MetaList("spirv", <<NestedPath("fragment")>>)>> }

\* top-level items: functions, and items that are no function (struct, use)
Items == {[item |-> "fn", attrs |-> a] : a \in FnAttrs}
         \cup {[item |-> "other", attrs |-> <<>>]}

\* the function at position i of the file is named <prefix i>_<suffix>
FnIdent(i) == [prefix |-> i, suffix |-> "fs"]
get_prefix(ident) == ident.prefix
Pipeline_name(prefix) == <<"Pipeline", prefix>>

\* the first attribute that is a list whose path is spirv
get_spirv(func) ==
    LET lists == SelectSeq(func.attrs, LAMBDA a : a.meta = "list" /\ a.name = "spirv")
    IN  IF lists = <<>> THEN None ELSE Some(lists[1])

\* the first nested path that is vertex or fragment
get_shader_type(spirv) ==
    LET stages == SelectSeq(spirv.nested,
                            LAMBDA n : n.path /\ n.ident \in {"vertex", "fragment"})
    IN  IF stages = <<>> THEN None
        ELSE IF stages[1].ident = "vertex" THEN Some("Vertex") ELSE Some("Fragment")

RECURSIVE get_pipelines_loop(_, _, _)
get_pipelines_loop(f, i, pipelines_out) ==
    IF i > Len(f) THEN pipelines_out
    ELSE LET func == f[i]
             spirv == IF func.item = "fn" THEN get_spirv(func) ELSE None
             is_fragment == /\ ~is_none(spirv)
                            /\ get_shader_type(unwrap(spirv)) = Some("Fragment")
         IN  get_pipelines_loop(f, i + 1,
                IF is_fragment
                THEN Append(pipelines_out, Pipeline_name(get_prefix(FnIdent(i))))
                ELSE pipelines_out)

get_pipelines(f) == get_pipelines_loop(f, 1, <<>>)

InitExtract ==
    /\ file \in SeqsUpTo(Items, MaxItems)
    /\ found = None
    /\ idleVertex /\ idleSets /\ idlePool /\ idleRegistry /\ idleDevice

extract ==
    /\ is_none(found)
    /\ found' = Some(get_pipelines(file))
    /\ UNCHANGED <<file, rtVars, vtxVars, setVars, poolVars>>

NextExtract == extract

SpecExtract == InitExtract /\ [][NextExtract]_vars

\* the function carries an annotation of this stage
Annotated(it, stage) ==
    /\ it.item = "fn"
    /\ \E i \in DOMAIN it.attrs :
            /\ it.attrs[i].meta = "list" /\ it.attrs[i].name = "spirv"
            /\ \E k \in DOMAIN it.attrs[i].nested : it.attrs[i].nested[k] = NestedPath(stage)

RECURSIVE FragmentFns(_, _)
FragmentFns(f, i) ==
    IF i > Len(f) THEN <<>>
    ELSE (IF Annotated(f[i], "fragment") THEN <<Pipeline_name(i)>> ELSE <<>>)
         \o FragmentFns(f, i + 1)

\* C12: the pipelines found are one per function carrying a fragment-stage
\* annotation, in source order, and nothing for any other item
C12_OnePerFragmentFn ==
    ~is_none(found) => unwrap(found) = FragmentFns(file, 1)

====
